---- MODULE Spec2Model ----
(***************************************************************************)
(* Model of the invoice merge pipeline (src/core/merger.py) together with  *)
(* the grid layout (src/core/layout.py) and the document engine            *)
(* (src/core/pdf_engine.py) operations it drives.                          *)
(*                                                                         *)
(* One run of MergeExporter.merge_to_pdf or generate_preview_page is a     *)
(* linear scan over the items; every loop iteration is one action.  The    *)
(* outcomes of the engine (open, show_pdf_page, save) and of the caller's  *)
(* cancel_check are chosen nondeterministically.                           *)
(*                                                                         *)
(* TaskRunner (src/core/tasks.py) is modelled with its controlling context *)
(* and one worker thread per accepted run_task call.                       *)
(*                                                                         *)
(* Cropper (src/core/cropper.py) and LayoutCalculator (src/core/layout.py) *)
(* are functions of their arguments: their specifications draw the         *)
(* configuration in the initial state and the arguments in the call.       *)
(* Rectangles handed to the Cropper have integer coordinates; the layout   *)
(* is computed in binary floating point of FloatBits significant bits.     *)
(***************************************************************************)
EXTENDS Integers, Sequences, FiniteSets, TLC

\* ---------------------------------------------------------------- bounds
MaxItems == 3          \* longest item list handed to a run
MaxRows == 2           \* largest LayoutConfig.rows
MaxCols == 2           \* largest LayoutConfig.cols
MaxRuns == 2           \* run_task calls that start a thread
MaxReports == 2        \* report_progress calls of one task
MaxIndex == 8          \* largest index handed to a LayoutCalculator call
FloatBits == 10        \* significant bits of a floating-point number
MaxGrid == 4          \* rows and columns of the grids whose cells are compared

\* ------------------------------------------------------------ environment
\* Source paths, as sequences of path components.
Paths == { <<"in", "a.pdf">>, <<"out", "a.pdf">> }

\* InvoiceItem: the field the pipeline itself reads.  page_index, crop_mode
\* and manual_norm are only handed on to compute_crop_rect and
\* show_pdf_page, whose outcome is an input of the loop actions below.
InvoiceItem == [path : Paths]

RECURSIVE SeqsUpTo(_, _)
SeqsUpTo(S, n) ==
    IF n = 0 THEN { <<>> }
    ELSE LET shorter == SeqsUpTo(S, n - 1)
         IN  shorter \cup { Append(s, x) : s \in { t \in shorter : Len(t) = n - 1 }, x \in S }

ItemLists == SeqsUpTo(InvoiceItem, MaxItems)

\* max_items argument of generate_preview_page: None (the empty tuple) or
\* an int k (the tuple <<k>>).
MaxItemsArgs == { <<>> } \cup { <<k>> : k \in -1 .. MaxItems + 1 }

Min(a, b) == IF a < b THEN a ELSE b
Max(a, b) == IF a > b THEN a ELSE b

\* ------------------------------------------------------------- variables
VARIABLES
    rows, cols,        \* layout_config.rows / .cols of the exporter
    pc,                \* "idle" | "loop" | "done"
    mode,              \* "none" | "merge" | "preview"
    items,             \* the sequence the loop enumerates
    has_progress,      \* progress_callback supplied
    has_cancel,        \* cancel_check supplied
    idx,               \* number of items the loop has finished (next 0-based index)
    output_doc,        \* "none" | "open" | "closed"
    pages,             \* number of pages of output_doc
    opened_docs,       \* keys of the opened_docs cache
    live,              \* path -> number of source handles open
    open_ok,           \* path -> number of successful open_document calls
    open_tried,        \* path -> number of open_document calls
    progress_log,      \* ExportProgress values handed to progress_callback
    cancel_polls,      \* number of cancel_check calls
    stages,            \* per scanned item: outcome of its three stages
    placed,            \* show_pdf_page calls that succeeded, in order
    save_calls,        \* number of output_doc.save calls
    saved,             \* number of output_doc.save calls that succeeded
    cancel_at,         \* index at which cancel_check answered true, -1 if never
    result,            \* "none" | "True" | "False" | "None" | "doc"
    outcome,           \* "Idle" | "Running" | "Completed" | "Cancelled" | "Failed"
    \* TaskRunner
    current_task,      \* 0 for None, else the number of the thread last created
    alive,             \* the threads that were started and have not ended
    cancel_flag,       \* cancel_flag.is_set()
    progress_queue,    \* contents of progress_queue, oldest first
    started,           \* number of threads started so far
    reported,          \* thread -> number of report_progress calls it made
    received,          \* the values get_progress has returned, None left out
    last_got,          \* what the last get_progress returned: <<>> for None, else <<v>>
    polled,            \* what the running task's last is_cancelled() returned
    last_call,         \* how the last run_task call ended
    last_call_alive,   \* whether a task was alive when run_task was last called
    last_call_flag,    \* cancel_flag.is_set() when run_task was last called
    \* Cropper
    crop_cfg,          \* the CropConfig of the Cropper
    crop_page,         \* the page handed to the call: its width and height
    crop_call,         \* the last call: function and arguments
    crop_ret,          \* what the last call returned
    \* LayoutCalculator
    lay_cfg,           \* orientation, margin and gap of the LayoutConfig
    lay_call,          \* the last call: function and arguments
    lay_ret,           \* what the last call returned
    cfg_call,          \* the last config constructor call: class and arguments
    cfg_ret,           \* how it ended: raised or not, and the object it made
    cancel_called      \* <<>>, or where the export was when cancel() was first called

mergeVars == << rows, cols, pc, mode, items, has_progress, has_cancel, idx,
                output_doc, pages, opened_docs, live, open_ok, open_tried,
                progress_log, cancel_polls, stages, placed, save_calls, saved,
                cancel_at, result, outcome >>

taskVars == << current_task, alive, cancel_flag, progress_queue, started,
               reported, received, last_got, polled, last_call, last_call_alive,
               last_call_flag >>

cropVars == << crop_cfg, crop_page, crop_call, crop_ret >>

layVars == << lay_cfg, lay_call, lay_ret >>

cfgVars == << cfg_call, cfg_ret >>

runVars == << cancel_called >>

nonMergeVars == << taskVars, cropVars, layVars, cfgVars, runVars >>

nonTaskVars == << mergeVars, cropVars, layVars, cfgVars, runVars >>

vars == << mergeVars, taskVars, cropVars, layVars, cfgVars, runVars >>

\* ---------------------------------------------------------- pure helpers
\* LayoutCalculator.items_per_page
items_per_page == rows * cols

\* get_cell_position without the wrap of the row to the grid.
get_cell_position_NoWrap(index) ==
    [row |-> index \div cols, col |-> index % cols]

\* LayoutCalculator.get_cell_position
get_cell_position(index) ==
    [row |-> (index \div cols) % rows, col |-> index % cols]

\* Path(item.path).name: the final path component.
PathName(path) == path[Len(path)]

\* ExportProgress with the 0-based loop index reported as `current`.
ExportProgress_ZeroBased(i, its) ==
    [current |-> i, total |-> Len(its), current_file |-> PathName(its[i + 1].path)]

\* ExportProgress built at merger.py:60-64.
ExportProgress(i, its) ==
    [current |-> i + 1, total |-> Len(its), current_file |-> PathName(its[i + 1].path)]

\* IsEmptyInput with the guard against an empty list missing.
IsEmptyInput_Never(its) == FALSE

\* `if not items` (merger.py:42, 126).
IsEmptyInput(its) == its = <<>>

\* CancelRequested with the answer of cancel_check dropped.
CancelRequested_Ignored(supplied, answer) == FALSE

\* `if cancel_check and cancel_check()` (merger.py:55).
CancelRequested(supplied, answer) == supplied /\ answer

\* NeedsNewPage testing the 1-based position: the page is added after its
\* last item instead of before its first.
NeedsNewPage_OneBased(i) == (i + 1) % items_per_page = 0

\* `if idx % items_per_page == 0` (merger.py:68).
NeedsNewPage(i) == i % items_per_page = 0

\* CellIndex counting the items placed so far instead of the input index:
\* a skipped item shifts every later item one cell back.
CellIndex_Packed(i) == Len(placed) % items_per_page

\* `cell_index = idx % items_per_page` (merger.py:87).
CellIndex(i) == i % items_per_page

\* NeedsOpen with the cache lookup missing: every item opens its source.
NeedsOpen_Always(path, cache) == TRUE

\* `if item.path not in opened_docs` (merger.py:72, 144).
NeedsOpen(path, cache) == path \notin cache

\* CacheAfterOpen with the path recorded whether or not the open succeeded.
CacheAfterOpen_RecordFailure(cache, path, must_open, open_answer) ==
    IF must_open THEN cache \cup {path} ELSE cache

\* `opened_docs[item.path] = self.engine.open_document(item.path)` inside
\* try/except (merger.py:72-76, 144-148): the key is stored only when
\* open_document returns; when it raises, the assignment never happens.
CacheAfterOpen(cache, path, must_open, open_answer) ==
    IF must_open /\ open_answer THEN cache \cup {path} ELSE cache

\* StageOutcome with the `continue` after a failed compute_crop_rect
\* missing: show_pdf_page is attempted although no crop rectangle exists.
StageOutcome_NoSkipAfterCrop(must_open, open_answer, crop_answer, show_answer) ==
    LET opened == IF must_open THEN open_answer ELSE TRUE
        cropped == opened /\ crop_answer
    IN  [open |-> IF ~must_open THEN "reused" ELSE IF open_answer THEN "ok" ELSE "failed",
         crop |-> IF ~opened THEN "none" ELSE IF cropped THEN "ok" ELSE "failed",
         show |-> IF ~opened THEN "none" ELSE IF show_answer THEN "ok" ELSE "failed"]

\* The three fallible stages of one item, each in its own try/except that
\* ends the iteration with `continue` (merger.py:72-100, 144-171): which
\* stages ran and how each ended ("none": not reached).
StageOutcome(must_open, open_answer, crop_answer, show_answer) ==
    LET opened == IF must_open THEN open_answer ELSE TRUE
        cropped == opened /\ crop_answer
    IN  [open |-> IF ~must_open THEN "reused" ELSE IF open_answer THEN "ok" ELSE "failed",
         crop |-> IF ~opened THEN "none" ELSE IF cropped THEN "ok" ELSE "failed",
         show |-> IF ~cropped THEN "none" ELSE IF show_answer THEN "ok" ELSE "failed"]

\* items[:k] of Python, k an int.
SliceTo(its, k) ==
    IF k >= 0 THEN SubSeq(its, 1, Min(k, Len(its)))
    ELSE SubSeq(its, 1, Max(0, Len(its) + k))

\* preview_items of generate_preview_page (merger.py:130-134).
PreviewItems(its, max_items) ==
    LET m == IF max_items = <<>> THEN items_per_page ELSE max_items[1]
    IN  SliceTo(its, Min(m, Len(its)))

\* ------------------------------------------------------------------ Init
\* MergeExporter before any call.
MergeIdle ==
    /\ pc = "idle"
    /\ mode = "none"
    /\ items = <<>>
    /\ has_progress = FALSE
    /\ has_cancel = FALSE
    /\ idx = 0
    /\ output_doc = "none"
    /\ pages = 0
    /\ opened_docs = {}
    /\ live = [p \in Paths |-> 0]
    /\ open_ok = [p \in Paths |-> 0]
    /\ open_tried = [p \in Paths |-> 0]
    /\ progress_log = <<>>
    /\ cancel_polls = 0
    /\ stages = <<>>
    /\ placed = <<>>
    /\ save_calls = 0
    /\ saved = 0
    /\ cancel_at = -1
    /\ result = "none"
    /\ outcome = "Idle"

\* TaskRunner.__init__ (tasks.py:13-17).
TaskIdle ==
    /\ current_task = 0
    /\ alive = {}
    /\ cancel_flag = FALSE
    /\ progress_queue = <<>>
    /\ started = 0
    /\ reported = [t \in 1..MaxRuns |-> 0]
    /\ received = <<>>
    /\ last_got = <<>>
    /\ polled = "none"
    /\ last_call = "none"
    /\ last_call_alive = FALSE
    /\ last_call_flag = FALSE

\* ------------------------------------------------------------ rectangles
\* fitz.Rect(x0, y0, x1, y1).
Rect(a, b, c, d) == [x0 |-> a, y0 |-> b, x1 |-> c, y1 |-> d]

\* fitz.Rect(): the rectangle the detectors return for "nothing found".
EmptyRect == Rect(0, 0, 0, 0)

\* Rect.is_empty: no area.
IsEmpty(r) == r.x0 >= r.x1 \/ r.y0 >= r.y1

\* Rect.width, Rect.height, Rect.get_area().
RectWidth(r) == Max(0, r.x1 - r.x0)
RectHeight(r) == Max(0, r.y1 - r.y0)
RectArea(r) == RectWidth(r) * RectHeight(r)

\* `a | b` (Rect.include_rect): an empty operand contributes nothing.
RectUnion(a, b) ==
    IF IsEmpty(b) THEN a
    ELSE IF IsEmpty(a) THEN b
    ELSE Rect(Min(a.x0, b.x0), Min(a.y0, b.y0), Max(a.x1, b.x1), Max(a.y1, b.y1))

\* `a & b` (Rect.intersect): the coordinates of a clamped to b; the result
\* is empty when the two do not overlap.
RectIntersect(a, b) ==
    IF IsEmpty(b) THEN b
    ELSE IF IsEmpty(a) THEN a
    ELSE Rect(Max(a.x0, b.x0), Max(a.y0, b.y0), Min(a.x1, b.x1), Min(a.y1, b.y1))

\* page.rect: the page's rectangle, with its origin at (0, 0).
PageRect(page) == Rect(0, 0, page.width, page.height)

\* ---------------------------------------------------------------- Cropper
\* The threshold of `rect.get_area() < 100` (cropper.py:73).
MinObjectArea == 100

\* CropConfig values: top_half_ratio in hundredths, auto_margin in points
\* (the first one is the default configuration).
CropConfigs ==
    { [top_half_pct |-> 55, auto_margin |-> 10],
      [top_half_pct |-> 100, auto_margin |-> 0],
      [top_half_pct |-> 50, auto_margin |-> 5] }

Pages == { [width |-> 40, height |-> 60], [width |-> 60, height |-> 40] }

\* manual_norm: None is the empty tuple; a region is (x0, y0, x1, y1) in
\* halves of the page, accepted by InvoiceItem.__post_init__ only if
\* 0 <= x0 < x1 <= 1 and 0 <= y0 < y1 <= 1.
ValidNorm(n) ==
    /\ 0 <= n[1] /\ n[1] < n[3] /\ n[3] <= 2
    /\ 0 <= n[2] /\ n[2] < n[4] /\ n[4] <= 2

ManualNorms ==
    { <<>> } \cup { n \in { <<0, 0, 2, 2>>, <<1, 0, 2, 1>>, <<0, 1, 1, 2>>, <<2, 2, 1, 1>> } :
                      ValidNorm(n) }

CropModes == { "auto", "top", "manual", "other" }

CropItems == [crop_mode : CropModes, manual_norm : ManualNorms]

\* What the three engine queries of _detect_object_bounds deliver: the
\* rectangles of the text blocks and drawings (fail: the query raises), the
\* bounding boxes of the images (fail_at = 0: get_images raises; fail_at = k
\* in 1..Len: get_image_bbox raises for the k-th image; Len + 1: no failure).
TextOptions ==
    { <<>>, << Rect(5, 5, 10, 10) >>, << Rect(0, 0, 10, 10) >>,
      << Rect(0, 0, 10, 10), Rect(10, 10, 30, 30) >> }

DrawingOptions ==
    { <<>>, << Rect(0, 20, 40, 20), Rect(20, 30, 35, 50) >>, << Rect(50, 70, 80, 90) >> }

ImageOptions ==
    { <<>>, << Rect(2, 40, 12, 55), Rect(0, 0, 0, 0), Rect(30, 5, 38, 12) >> }

Sources ==
    { [text |-> [fail |-> tf, rects |-> t],
       drawings |-> [fail |-> df, rects |-> d],
       images |-> [fail_at |-> k, bboxes |-> i]] :
        tf \in BOOLEAN, t \in TextOptions, df \in BOOLEAN, d \in DrawingOptions,
        i \in ImageOptions, k \in 0..4 }

WellFormedSources == { src \in Sources : src.images.fail_at <= Len(src.images.bboxes) + 1 }

\* What _detect_pixel_bounds returns (fitz.Rect() when it finds no ink or
\* fails).
PixelOptions == { EmptyRect, Rect(5, 5, 35, 35), Rect(0, 0, 8, 8) }

NoItem == [crop_mode |-> "auto", manual_norm |-> <<>>]

NoSources ==
    [text |-> [fail |-> FALSE, rects |-> <<>>],
     drawings |-> [fail |-> FALSE, rects |-> <<>>],
     images |-> [fail_at |-> 1, bboxes |-> <<>>]]

\* No Cropper call made yet.
CropIdle ==
    /\ crop_call = [fn |-> "none", item |-> NoItem, sources |-> NoSources, pixel |-> EmptyRect]
    /\ crop_ret = [branch |-> "none", rect |-> EmptyRect, fallback |-> FALSE]

CropParked ==
    /\ crop_cfg = [top_half_pct |-> 55, auto_margin |-> 10]
    /\ crop_page = [width |-> 40, height |-> 60]
    /\ CropIdle

\* ------------------------------------------------------- LayoutCalculator
\* No LayoutCalculator call made yet.
LayIdle ==
    /\ lay_call = [fn |-> "none", index |-> 0, src_w |-> 0, src_h |-> 0]
    /\ lay_ret = [row |-> 0, col |-> 0, x0 |-> <<0, 1>>, y0 |-> <<0, 1>>,
                  x1 |-> <<0, 1>>, y1 |-> <<0, 1>>]

LayParked ==
    /\ lay_cfg = [a4_orientation |-> "portrait", margin |-> 20, gap |-> 10]
    /\ LayIdle

\* ------------------------------------------------------ config dataclasses
\* A constructor argument is <<k>> for the number k and <<>> for a float
\* that is not a number (nan).  top_half_ratio is in hundredths, pixel_zoom
\* in tenths.
DefaultCropArgs ==
    [top_half_ratio |-> <<55>>, auto_margin |-> <<10>>, pixel_threshold |-> <<245>>,
     pixel_zoom |-> <<15>>]

DefaultLayoutArgs == [rows |-> <<2>>, cols |-> <<2>>, margin |-> <<20>>, gap |-> <<10>>]

\* cancel() not called during an export.
RunIdle == cancel_called = <<>>

\* No config constructed yet.
CfgIdle ==
    /\ cfg_call = [cls |-> "none", crop |-> DefaultCropArgs, layout |-> DefaultLayoutArgs]
    /\ cfg_ret = [raised |-> FALSE, object |-> "none"]

Init ==
    /\ CropParked
    /\ LayParked
    /\ CfgIdle
    /\ RunIdle
    /\ rows \in 1..MaxRows
    /\ cols \in 1..MaxCols
    /\ MergeIdle
    /\ TaskIdle

\* --------------------------------------------------------------- actions
\* One pass through the body shared by both loops (merger.py:71-100 and
\* 143-171) for the item at 0-based index i, placed in grid cell `cell` of
\* current_page, the output page numbered `page`.  open_answer, crop_answer
\* and show_answer say whether open_document, compute_crop_rect (which
\* raises, for one, when get_page rejects the page index) and show_pdf_page
\* return (TRUE) or raise (FALSE) if the iteration gets to call them.
ItemBody(i, page, cell, open_answer, crop_answer, show_answer) ==
    LET item == items[i + 1]
        path == item.path
        must_open == NeedsOpen(path, opened_docs)
        done == StageOutcome(must_open, open_answer, crop_answer, show_answer)
        shown == done.show = "ok"
        pos == get_cell_position(cell)
    IN  /\ open_tried' = IF must_open THEN [open_tried EXCEPT ![path] = @ + 1] ELSE open_tried
        /\ open_ok' = IF must_open /\ open_answer THEN [open_ok EXCEPT ![path] = @ + 1] ELSE open_ok
        /\ live' = IF must_open /\ open_answer THEN [live EXCEPT ![path] = @ + 1] ELSE live
        /\ opened_docs' = CacheAfterOpen(opened_docs, path, must_open, open_answer)
        /\ stages' = Append(stages, done)
        /\ placed' = IF shown
                     THEN Append(placed, [index |-> i, page |-> page, cell |-> cell,
                                          row |-> pos.row, col |-> pos.col, path |-> path])
                     ELSE placed
        /\ idx' = i + 1

\* merge_to_pdf(items=[]): merger.py:42-43.
MergeEmpty(its, prog, canc) ==
    /\ pc = "idle"
    /\ IsEmptyInput(its)
    /\ pc' = "done"
    /\ mode' = "merge"
    /\ items' = its
    /\ has_progress' = prog
    /\ has_cancel' = canc
    /\ result' = "False"
    /\ outcome' = "Failed"
    /\ UNCHANGED << rows, cols, idx, output_doc, pages, opened_docs, live,
                    open_ok, open_tried, progress_log, cancel_polls, stages,
                    placed, save_calls, saved, cancel_at >>
    /\ UNCHANGED nonMergeVars

\* merge_to_pdf with a non-empty list, up to the loop: merger.py:45-51.
MergeStart(its, prog, canc) ==
    /\ pc = "idle"
    /\ ~IsEmptyInput(its)
    /\ pc' = "loop"
    /\ mode' = "merge"
    /\ items' = its
    /\ has_progress' = prog
    /\ has_cancel' = canc
    /\ output_doc' = "open"
    /\ outcome' = "Running"
    /\ UNCHANGED << rows, cols, idx, pages, opened_docs, live, open_ok, open_tried,
                    progress_log, cancel_polls, stages, placed, save_calls, saved,
                    cancel_at, result >>
    /\ UNCHANGED nonMergeVars

\* cancel_check() answers true: merger.py:55-56.
MergeCancel(cancel_answer) ==
    /\ pc = "loop" /\ mode = "merge"
    /\ idx < Len(items)
    /\ CancelRequested(has_cancel, cancel_answer)
    /\ cancel_polls' = IF has_cancel THEN cancel_polls + 1 ELSE cancel_polls
    /\ cancel_at' = IF has_cancel /\ cancel_answer THEN idx ELSE cancel_at
    /\ pc' = "done"
    /\ result' = "False"
    /\ outcome' = "Cancelled"
    /\ UNCHANGED << rows, cols, mode, items, has_progress, has_cancel, idx,
                    output_doc, pages, opened_docs, live, open_ok, open_tried,
                    progress_log, stages, placed, save_calls, saved >>
    /\ UNCHANGED nonMergeVars

\* One iteration of the export loop that is not cancelled: merger.py:53-100.
MergeItem(cancel_answer, open_answer, crop_answer, show_answer) ==
    /\ pc = "loop" /\ mode = "merge"
    /\ idx < Len(items)
    /\ ~CancelRequested(has_cancel, cancel_answer)
    /\ cancel_polls' = IF has_cancel THEN cancel_polls + 1 ELSE cancel_polls
    /\ cancel_at' = IF has_cancel /\ cancel_answer THEN idx ELSE cancel_at
    /\ progress_log' = IF has_progress
                       THEN Append(progress_log, ExportProgress(idx, items))
                       ELSE progress_log
    /\ pages' = IF NeedsNewPage(idx) THEN pages + 1 ELSE pages
    /\ ItemBody(idx, (IF NeedsNewPage(idx) THEN pages + 1 ELSE pages) - 1, CellIndex(idx),
                open_answer, crop_answer, show_answer)
    /\ UNCHANGED << rows, cols, pc, mode, items, has_progress, has_cancel,
                    output_doc, save_calls, saved, result, outcome >>
    /\ UNCHANGED nonMergeVars

\* After the loop: save, close the output, close the cache: merger.py:102-113.
MergeFinish(save_answer) ==
    /\ pc = "loop" /\ mode = "merge"
    /\ idx = Len(items)
    /\ save_calls' = save_calls + 1
    /\ pc' = "done"
    /\ IF save_answer
       THEN /\ saved' = saved + 1
            /\ output_doc' = "closed"
            /\ live' = [p \in Paths |-> IF p \in opened_docs THEN live[p] - 1 ELSE live[p]]
            /\ result' = "True"
            /\ outcome' = "Completed"
       ELSE /\ result' = "False"
            /\ outcome' = "Failed"
            /\ UNCHANGED << saved, output_doc, live >>
    /\ UNCHANGED << rows, cols, mode, items, has_progress, has_cancel, idx, pages,
                    opened_docs, open_ok, open_tried, progress_log, cancel_polls,
                    stages, placed, cancel_at >>
    /\ UNCHANGED nonMergeVars

\* generate_preview_page(items=[]): merger.py:126-127.
PreviewEmpty(its) ==
    /\ pc = "idle"
    /\ IsEmptyInput(its)
    /\ pc' = "done"
    /\ mode' = "preview"
    /\ items' = its
    /\ result' = "None"
    /\ outcome' = "Failed"
    /\ UNCHANGED << rows, cols, has_progress, has_cancel, idx, output_doc,
                    pages, opened_docs, live, open_ok, open_tried, progress_log,
                    cancel_polls, stages, placed, save_calls, saved, cancel_at >>
    /\ UNCHANGED nonMergeVars

\* generate_preview_page up to the loop: merger.py:129-140.
PreviewStart(its, max_items) ==
    /\ pc = "idle"
    /\ ~IsEmptyInput(its)
    /\ pc' = "loop"
    /\ mode' = "preview"
    /\ items' = PreviewItems(its, max_items)
    /\ output_doc' = "open"
    /\ pages' = 1
    /\ outcome' = "Running"
    /\ UNCHANGED << rows, cols, has_progress, has_cancel, idx, opened_docs, live,
                    open_ok, open_tried, progress_log, cancel_polls, stages,
                    placed, save_calls, saved, cancel_at, result >>
    /\ UNCHANGED nonMergeVars

\* One iteration of the preview loop: merger.py:142-171.
PreviewItem(open_answer, crop_answer, show_answer) ==
    /\ pc = "loop" /\ mode = "preview"
    /\ idx < Len(items)
    /\ ItemBody(idx, pages - 1, idx, open_answer, crop_answer, show_answer)
    /\ UNCHANGED << rows, cols, pc, mode, items, has_progress, has_cancel,
                    output_doc, pages, progress_log, cancel_polls, save_calls,
                    saved, cancel_at, result, outcome >>
    /\ UNCHANGED nonMergeVars

\* After the preview loop: close the cache, return the document: merger.py:173-177.
PreviewFinish ==
    /\ pc = "loop" /\ mode = "preview"
    /\ idx = Len(items)
    /\ pc' = "done"
    /\ live' = [p \in Paths |-> IF p \in opened_docs THEN live[p] - 1 ELSE live[p]]
    /\ result' = "doc"
    /\ outcome' = "Completed"
    /\ UNCHANGED << rows, cols, mode, items, has_progress, has_cancel, idx,
                    output_doc, pages, opened_docs, open_ok, open_tried,
                    progress_log, cancel_polls, stages, placed, save_calls, saved,
                    cancel_at >>
    /\ UNCHANGED nonMergeVars

Next ==
    \/ \E its \in ItemLists, prog \in BOOLEAN, canc \in BOOLEAN : MergeEmpty(its, prog, canc)
    \/ \E its \in ItemLists, prog \in BOOLEAN, canc \in BOOLEAN : MergeStart(its, prog, canc)
    \/ \E c \in BOOLEAN : MergeCancel(c)
    \/ \E c \in BOOLEAN, o \in BOOLEAN, r \in BOOLEAN, s \in BOOLEAN : MergeItem(c, o, r, s)
    \/ \E ok \in BOOLEAN : MergeFinish(ok)
    \/ \E its \in ItemLists : PreviewEmpty(its)
    \/ \E its \in ItemLists, m \in MaxItemsArgs : PreviewStart(its, m)
    \/ \E o \in BOOLEAN, r \in BOOLEAN, s \in BOOLEAN : PreviewItem(o, r, s)
    \/ PreviewFinish

Spec == Init /\ [][Next]_vars

TypeOK ==
    /\ pc \in {"idle", "loop", "done"}
    /\ mode \in {"none", "merge", "preview"}
    /\ idx \in 0..Len(items)
    /\ output_doc \in {"none", "open", "closed"}
    /\ result \in {"none", "True", "False", "None", "doc"}
    /\ outcome \in {"Idle", "Running", "Completed", "Cancelled", "Failed"}
    /\ cancel_at \in -1 .. MaxItems

\* ------------------------------------------------------------ TaskRunner
\* is_running without the is_alive() test: a task that has ended still
\* counts as running.
is_running_NeverEnds(task, threads) == task # 0

\* TaskRunner.is_running (tasks.py:19-21).
is_running(task, threads) == task # 0 /\ task \in threads

\* is_cancelled never seeing the flag.
is_cancelled_Never(flag) == FALSE

\* TaskRunner.is_cancelled (tasks.py:27-29).
is_cancelled(flag) == flag

\* cancel_flag after run_task with the flag cleared before the is_running
\* test instead of after it.
FlagAfterRunTask_ClearFirst(running, flag) == FALSE

\* cancel_flag after run_task with a rejected call setting the flag.
FlagAfterRunTask_SetOnReject(running, flag) == running

\* cancel_flag after run_task with no clear at all.
FlagAfterRunTask_NeverClear(running, flag) == flag

\* cancel_flag after run_task: the call raises before `cancel_flag.clear()`
\* when a task is running (tasks.py:39-42).
FlagAfterRunTask(running, flag) == IF running THEN flag ELSE FALSE

\* report_progress on a channel of capacity 1 that drops a value when full.
QueuePut_DropWhenFull(queue, value) == IF queue = <<>> THEN <<value>> ELSE queue

\* progress_queue.put (tasks.py:53): the queue is unbounded.
QueuePut(queue, value) == Append(queue, value)

\* run_task while no task is running: tasks.py:39-49.
RunTask ==
    /\ ~is_running(current_task, alive)
    /\ started < MaxRuns
    /\ cancel_flag' = FlagAfterRunTask(FALSE, cancel_flag)
    /\ started' = started + 1
    /\ current_task' = started + 1
    /\ alive' = alive \cup {started + 1}
    /\ polled' = "none"
    /\ last_call' = "started"
    /\ last_call_alive' = (alive # {})
    /\ last_call_flag' = cancel_flag
    /\ UNCHANGED << progress_queue, reported, received, last_got >>
    /\ UNCHANGED nonTaskVars

\* run_task while a task is running: raises RuntimeError (tasks.py:39-40).
RunTaskRejected ==
    /\ is_running(current_task, alive)
    /\ cancel_flag' = FlagAfterRunTask(TRUE, cancel_flag)
    /\ last_call' = "RuntimeError"
    /\ last_call_alive' = (alive # {})
    /\ last_call_flag' = cancel_flag
    /\ UNCHANGED << current_task, alive, progress_queue, started, reported,
                    received, last_got, polled >>
    /\ UNCHANGED nonTaskVars

\* cancel (tasks.py:23-25).
Cancel ==
    /\ cancel_flag' = TRUE
    /\ UNCHANGED << current_task, alive, progress_queue, started, reported,
                    received, last_got, polled, last_call, last_call_alive, last_call_flag >>
    /\ UNCHANGED nonTaskVars

\* get_progress (tasks.py:55-59).
GetProgress ==
    /\ IF progress_queue # <<>>
       THEN /\ last_got' = << Head(progress_queue) >>
            /\ received' = Append(received, Head(progress_queue))
            /\ progress_queue' = Tail(progress_queue)
       ELSE /\ last_got' = <<>>
            /\ UNCHANGED << received, progress_queue >>
    /\ UNCHANGED << current_task, alive, cancel_flag, started, reported, polled,
                    last_call, last_call_alive, last_call_flag >>
    /\ UNCHANGED nonTaskVars

\* The task polls is_cancelled().
WorkerPoll(t) ==
    /\ t \in alive
    /\ polled' = IF is_cancelled(cancel_flag) THEN "true" ELSE "false"
    /\ UNCHANGED << current_task, alive, cancel_flag, progress_queue, started,
                    reported, received, last_got, last_call, last_call_alive, last_call_flag >>
    /\ UNCHANGED nonTaskVars

\* The task calls report_progress (tasks.py:51-53).
WorkerReport(t) ==
    /\ t \in alive
    /\ reported[t] < MaxReports
    /\ reported' = [reported EXCEPT ![t] = @ + 1]
    /\ progress_queue' = QueuePut(progress_queue, [run |-> t, current |-> reported[t] + 1])
    /\ UNCHANGED << current_task, alive, cancel_flag, started, received, last_got,
                    polled, last_call, last_call_alive, last_call_flag >>
    /\ UNCHANGED nonTaskVars

\* task_func returns and the thread ends.
WorkerExit(t) ==
    /\ t \in alive
    /\ alive' = alive \ {t}
    /\ UNCHANGED << current_task, cancel_flag, progress_queue, started, reported,
                    received, last_got, polled, last_call, last_call_alive, last_call_flag >>
    /\ UNCHANGED nonTaskVars

TaskInit ==
    /\ CropParked
    /\ LayParked
    /\ CfgIdle
    /\ RunIdle
    /\ rows = 1
    /\ cols = 1
    /\ MergeIdle
    /\ TaskIdle

TaskNext ==
    \/ RunTask
    \/ RunTaskRejected
    \/ Cancel
    \/ GetProgress
    \/ \E t \in 1..MaxRuns : WorkerPoll(t)
    \/ \E t \in 1..MaxRuns : WorkerReport(t)
    \/ \E t \in 1..MaxRuns : WorkerExit(t)

TaskSpec == TaskInit /\ [][TaskNext]_vars

\* The consumer keeps calling get_progress.
TaskFairSpec == TaskSpec /\ WF_vars(GetProgress)

\* ------------------------------------------------------- Cropper calls
NotEmptyRect(r) == ~IsEmpty(r)

\* The rectangles _detect_object_bounds has appended to `rects` when it
\* reaches the union (cropper.py:86-115).
GatheredRects(src) ==
    LET text == IF src.text.fail THEN <<>> ELSE src.text.rects
        drawings == IF src.drawings.fail THEN <<>> ELSE src.drawings.rects
        seen == SubSeq(src.images.bboxes, 1, Min(src.images.fail_at - 1, Len(src.images.bboxes)))
        images == SelectSeq(seen, NotEmptyRect)
    IN  text \o drawings \o images

\* `result = rects[0]; for rect in rects[1:]: result |= rect`.
RECURSIVE UnionFrom(_, _, _)
UnionFrom(rects, k, acc) ==
    IF k > Len(rects) THEN acc ELSE UnionFrom(rects, k + 1, RectUnion(acc, rects[k]))

\* detect_object_bounds keeping only the first gathered rectangle.
detect_object_bounds_FirstOnly(src) ==
    LET rects == GatheredRects(src)
    IN  IF rects = <<>> THEN EmptyRect ELSE rects[1]

\* Cropper._detect_object_bounds (cropper.py:84-124).
detect_object_bounds(src) ==
    LET rects == GatheredRects(src)
    IN  IF rects = <<>> THEN EmptyRect ELSE UnionFrom(rects, 2, rects[1])

\* Cropper._expand_rect (cropper.py:162-169).
expand_rect(r, margin) == Rect(r.x0 - margin, r.y0 - margin, r.x1 + margin, r.y1 + margin)

\* manual_crop with the horizontal coordinates scaled by the page height.
manual_crop_HeightOnly(page, n) ==
    RectIntersect(Rect((n[1] * page.height) \div 2, (n[2] * page.height) \div 2,
                       (n[3] * page.height) \div 2, (n[4] * page.height) \div 2),
                  PageRect(page))

\* Cropper._manual_crop (cropper.py:45-55); n is in halves of the page.
manual_crop(page, n) ==
    RectIntersect(Rect((n[1] * page.width) \div 2, (n[2] * page.height) \div 2,
                       (n[3] * page.width) \div 2, (n[4] * page.height) \div 2),
                  PageRect(page))

\* Cropper._top_half_crop (cropper.py:57-65).
top_half_crop(page, cfg) ==
    Rect(0, 0, page.width, (page.height * cfg.top_half_pct) \div 100)

\* SelectedRect keeping every nonempty tier-1 result, whatever its area.
SelectedRect_KeepSmall(tier1, tier2) ==
    IF IsEmpty(tier1) THEN tier2 ELSE tier1

\* The rectangle _auto_crop goes on with after its two tiers
\* (cropper.py:70-74).
SelectedRect(tier1, tier2) ==
    IF IsEmpty(tier1) \/ RectArea(tier1) < MinObjectArea THEN tier2 ELSE tier1

\* auto_crop without the clamp to the page.
auto_crop_NoClamp(page, cfg, src, pixel) ==
    LET selected == SelectedRect(detect_object_bounds(src), pixel)
    IN  IF IsEmpty(selected)
        THEN [rect |-> PageRect(page), fallback |-> TRUE]
        ELSE [rect |-> expand_rect(selected, cfg.auto_margin), fallback |-> FALSE]

\* Cropper._auto_crop (cropper.py:67-82): the rectangle returned and
\* whether it is the full-page fallback of line 78.
auto_crop(page, cfg, src, pixel) ==
    LET selected == SelectedRect(detect_object_bounds(src), pixel)
    IN  IF IsEmpty(selected)
        THEN [rect |-> PageRect(page), fallback |-> TRUE]
        ELSE [rect |-> RectIntersect(expand_rect(selected, cfg.auto_margin), PageRect(page)),
              fallback |-> FALSE]

\* CropBranch rejecting a mode that is none of auto, top, manual.
CropBranch_Strict(crop_mode, manual_norm) ==
    IF crop_mode = "manual" /\ Len(manual_norm) > 0 THEN "manual"
    ELSE IF crop_mode = "top" THEN "top"
    ELSE IF crop_mode = "auto" THEN "auto"
    ELSE "raise"

\* The branch compute_crop_rect takes (cropper.py:38-43); a tuple is true
\* when it is not None and not empty.
CropBranch(crop_mode, manual_norm) ==
    IF crop_mode = "manual" /\ Len(manual_norm) > 0 THEN "manual"
    ELSE IF crop_mode = "top" THEN "top"
    ELSE "auto"

\* Cropper.compute_crop_rect (cropper.py:19-43) on a page get_page returned.
compute_crop_rect(page, cfg, item, src, pixel) ==
    LET branch == CropBranch(item.crop_mode, item.manual_norm)
    IN  IF branch = "manual"
        THEN [branch |-> branch, rect |-> manual_crop(page, item.manual_norm), fallback |-> FALSE]
        ELSE IF branch = "top"
        THEN [branch |-> branch, rect |-> top_half_crop(page, cfg), fallback |-> FALSE]
        ELSE IF branch = "auto"
        THEN [branch |-> branch] @@ auto_crop(page, cfg, src, pixel)
        ELSE [branch |-> branch, rect |-> EmptyRect, fallback |-> FALSE]

\* A call of compute_crop_rect, on an item, with what the page's detectors
\* would deliver.
ComputeCropRect ==
    /\ crop_call.fn = "none"
    /\ \E item \in CropItems, src \in WellFormedSources, pixel \in PixelOptions :
          /\ crop_call' = [fn |-> "compute_crop_rect", item |-> item, sources |-> src,
                           pixel |-> pixel]
          /\ crop_ret' = compute_crop_rect(crop_page, crop_cfg, item, src, pixel)
    /\ UNCHANGED << mergeVars, taskVars, layVars, cfgVars, runVars, crop_cfg, crop_page >>

\* A call of _detect_object_bounds.
DetectObjectBounds ==
    /\ crop_call.fn = "none"
    /\ \E src \in WellFormedSources :
          /\ crop_call' = [fn |-> "detect_object_bounds", item |-> NoItem, sources |-> src,
                           pixel |-> EmptyRect]
          /\ crop_ret' = [branch |-> "objects", rect |-> detect_object_bounds(src),
                          fallback |-> FALSE]
    /\ UNCHANGED << mergeVars, taskVars, layVars, cfgVars, runVars, crop_cfg, crop_page >>

CropInit ==
    /\ LayParked
    /\ CfgIdle
    /\ RunIdle
    /\ rows = 1
    /\ cols = 1
    /\ MergeIdle
    /\ TaskIdle
    /\ crop_cfg \in CropConfigs
    /\ crop_page \in Pages
    /\ CropIdle

CropNext ==
    \/ ComputeCropRect
    \/ DetectObjectBounds

CropSpec == CropInit /\ [][CropNext]_vars

\* ------------------------------------------------- floating-point numbers
\* A number is a fraction <<n, d>> in lowest terms with d > 0.  The
\* program computes in binary floating point, rounding every result to
\* the nearest number with FloatBits significant bits, ties to even
\* (Python's float is this format with 53 bits).
Abs(x) == IF x < 0 THEN -x ELSE x

RECURSIVE Gcd(_, _)
Gcd(a, b) == IF b = 0 THEN a ELSE Gcd(b, a % b)

Rat(n, d) ==
    LET g == Gcd(Abs(n), Abs(d))
        sgn == IF d < 0 THEN -1 ELSE 1
    IN  << (sgn * n) \div g, Abs(d) \div g >>

RAdd(a, b) == Rat(a[1] * b[2] + b[1] * a[2], a[2] * b[2])
RSub(a, b) == Rat(a[1] * b[2] - b[1] * a[2], a[2] * b[2])
RMul(a, b) == Rat(a[1] * b[1], a[2] * b[2])
RDiv(a, b) == Rat(a[1] * b[2], a[2] * b[1])
RLe(a, b) == a[1] * b[2] <= b[1] * a[2]
RLt(a, b) == a[1] * b[2] < b[1] * a[2]
RInt(k) == << k, 1 >>

RECURSIVE Pow2(_)
Pow2(k) == IF k = 0 THEN 1 ELSE 2 * Pow2(k - 1)

\* n / d rounded to the nearest integer, ties to even (n >= 0, d > 0).
RoundHalfEven(n, d) ==
    LET q == n \div d
        r == n % d
    IN  IF 2 * r < d THEN q
        ELSE IF 2 * r > d THEN q + 1
        ELSE IF q % 2 = 0 THEN q ELSE q + 1

\* <<m, k, e>> with n / d = (m / k) * 2^e and 2^(FloatBits-1) <= m / k <
\* 2^FloatBits (n > 0, d > 0).
RECURSIVE Normal(_, _, _)
Normal(n, d, e) ==
    IF n < Pow2(FloatBits - 1) * d
    THEN IF d % 2 = 0 THEN Normal(n, d \div 2, e - 1) ELSE Normal(2 * n, d, e - 1)
    ELSE IF n >= Pow2(FloatBits) * d
    THEN IF n % 2 = 0 THEN Normal(n \div 2, d, e + 1) ELSE Normal(n, 2 * d, e + 1)
    ELSE << n, d, e >>

\* The floating-point number nearest to the fraction q.
FRound(q) ==
    IF q[1] = 0 THEN << 0, 1 >>
    ELSE LET sgn == IF q[1] < 0 THEN -1 ELSE 1
             nm == Normal(Abs(q[1]), q[2], 0)
             k == RoundHalfEven(nm[1], nm[2])
         IN  IF nm[3] >= 0 THEN Rat(sgn * k * Pow2(nm[3]), 1)
             ELSE Rat(sgn * k, Pow2(-nm[3]))

\* float + float, float - float, float * float, float / float.
FAdd(a, b) == FRound(RAdd(a, b))
FSub(a, b) == FRound(RSub(a, b))
FMul(a, b) == FRound(RMul(a, b))
FDiv(a, b) == FRound(RDiv(a, b))

\* min(a, b).
FMin(a, b) == IF RLe(a, b) THEN a ELSE b

\* float(k): an int taking part in float arithmetic.
FInt(k) == FRound(RInt(k))

\* ------------------------------------------------ LayoutCalculator calls
\* LayoutConfig values that pass __post_init__ (margin >= 0, gap >= 0); the
\* first one is the default configuration, the last one leaves no room
\* for a cell.
LayoutConfigs ==
    { [a4_orientation |-> "portrait", margin |-> 20, gap |-> 10],
      [a4_orientation |-> "landscape", margin |-> 20, gap |-> 10],
      [a4_orientation |-> "portrait", margin |-> 0, gap |-> 0],
      [a4_orientation |-> "portrait", margin |-> 300, gap |-> 10] }

\* Widths and heights of the source rectangle handed to the calls.
SrcSizes == { 0, 3, 7, 600 }

\* LayoutConfig.page_size (models.py:69-76): A4 in points.
page_size(cfg) ==
    LET a4_width == FRound(Rat(59527, 100))
        a4_height == FRound(Rat(84189, 100))
    IN  IF cfg.a4_orientation = "portrait"
        THEN [w |-> a4_width, h |-> a4_height]
        ELSE [w |-> a4_height, h |-> a4_width]

\* get_cell_size with the gaps between the cells left out of the division.
get_cell_size_NoGap(cfg) ==
    LET page == page_size(cfg)
        margin == FInt(cfg.margin)
    IN  [w |-> FDiv(FSub(page.w, FMul(RInt(2), margin)), RInt(cols)),
         h |-> FDiv(FSub(page.h, FMul(RInt(2), margin)), RInt(rows))]

\* LayoutCalculator.get_cell_size (layout.py:16-32).
get_cell_size(cfg) ==
    LET page == page_size(cfg)
        margin == FInt(cfg.margin)
        gap == FInt(cfg.gap)
    IN  [w |-> FDiv(FSub(FSub(page.w, FMul(RInt(2), margin)), FMul(RInt(cols - 1), gap)),
                    RInt(cols)),
         h |-> FDiv(FSub(FSub(page.h, FMul(RInt(2), margin)), FMul(RInt(rows - 1), gap)),
                    RInt(rows))]

\* calculate_scale never scaling a source up.
calculate_scale_ShrinkOnly(cfg, src_w, src_h) ==
    LET cell == get_cell_size(cfg)
    IN  IF src_w <= 0 \/ src_h <= 0 THEN RInt(1)
        ELSE FMin(RInt(1), FMin(FDiv(cell.w, FInt(src_w)), FDiv(cell.h, FInt(src_h))))

\* LayoutCalculator.calculate_scale (layout.py:34-52).
calculate_scale(cfg, src_w, src_h) ==
    LET cell == get_cell_size(cfg)
    IN  IF src_w <= 0 \/ src_h <= 0 THEN RInt(1)
        ELSE FMin(FDiv(cell.w, FInt(src_w)), FDiv(cell.h, FInt(src_h)))

\* The top-left corner of the cell at (row, col) (layout.py:91-92).
cell_origin(cfg, pos) ==
    LET cell == get_cell_size(cfg)
        margin == FInt(cfg.margin)
        gap == FInt(cfg.gap)
    IN  [x |-> FAdd(margin, FMul(RInt(pos.col), FAdd(cell.w, gap))),
         y |-> FAdd(margin, FMul(RInt(pos.row), FAdd(cell.h, gap)))]

\* LayoutCalculator.calculate_dest_rect (layout.py:68-101).
calculate_dest_rect(cfg, src_w, src_h, index) ==
    LET pos == get_cell_position(index)
        cell == get_cell_size(cfg)
        scale == calculate_scale(cfg, src_w, src_h)
        scaled_w == FMul(FInt(src_w), scale)
        scaled_h == FMul(FInt(src_h), scale)
        origin == cell_origin(cfg, pos)
        x0 == FAdd(origin.x, FDiv(FSub(cell.w, scaled_w), RInt(2)))
        y0 == FAdd(origin.y, FDiv(FSub(cell.h, scaled_h), RInt(2)))
    IN  [row |-> pos.row, col |-> pos.col,
         x0 |-> x0, y0 |-> y0, x1 |-> FAdd(x0, scaled_w), y1 |-> FAdd(y0, scaled_h)]

\* A call of get_cell_position.
GetCellPosition ==
    /\ lay_call.fn = "none"
    /\ \E index \in 0..MaxIndex :
          /\ lay_call' = [fn |-> "get_cell_position", index |-> index, src_w |-> 0, src_h |-> 0]
          /\ lay_ret' = [lay_ret EXCEPT !.row = get_cell_position(index).row,
                                        !.col = get_cell_position(index).col]
    /\ UNCHANGED << mergeVars, taskVars, cropVars, cfgVars, runVars, lay_cfg >>

\* A call of calculate_dest_rect.
CalculateDestRect ==
    /\ lay_call.fn = "none"
    /\ \E index \in 0..MaxIndex, src_w \in SrcSizes, src_h \in SrcSizes :
          /\ lay_call' = [fn |-> "calculate_dest_rect", index |-> index,
                          src_w |-> src_w, src_h |-> src_h]
          /\ lay_ret' = calculate_dest_rect(lay_cfg, src_w, src_h, index)
    /\ UNCHANGED << mergeVars, taskVars, cropVars, cfgVars, runVars, lay_cfg >>

LayInit ==
    /\ CfgIdle
    /\ RunIdle
    /\ rows \in 1..MaxRows
    /\ cols \in 1..MaxCols
    /\ MergeIdle
    /\ TaskIdle
    /\ CropParked
    /\ lay_cfg \in LayoutConfigs
    /\ LayIdle

LayNext ==
    \/ GetCellPosition
    \/ CalculateDestRect

LaySpec == LayInit /\ [][LayNext]_vars

\* The layout calls on grids of up to MaxGrid rows and columns:
\* LayoutCalculator(LayoutConfig(rows, cols, ...)) (layout.py:13-14).
GridInit ==
    /\ CfgIdle
    /\ RunIdle
    /\ rows \in 1..MaxGrid
    /\ cols \in 1..MaxGrid
    /\ MergeIdle
    /\ TaskIdle
    /\ CropParked
    /\ lay_cfg \in LayoutConfigs
    /\ LayIdle

GridNext == GetCellPosition

GridSpec == GridInit /\ [][GridNext]_vars

\* ------------------------------------------- export on the TaskRunner
\* run_task(merge_to_pdf, items, output_path, progress_callback =
\* report_progress, cancel_check = is_cancelled): the worker thread runs
\* the export loop, the controlling context calls cancel() and
\* get_progress().  The poll of line 55 and the rest of the iteration are
\* separate steps of the worker, so that cancel() can fall between them.

\* The item lists handed to the export.
ExportLists == { its \in ItemLists : ~IsEmptyInput(its) }

\* run_task starts the thread (tasks.py:39-49), which runs merge_to_pdf
\* up to the loop (merger.py:42-51).
ExportStart(its) ==
    /\ pc = "idle"
    /\ ~is_running(current_task, alive)
    /\ started < MaxRuns
    /\ cancel_flag' = FlagAfterRunTask(FALSE, cancel_flag)
    /\ started' = started + 1
    /\ current_task' = started + 1
    /\ alive' = alive \cup {started + 1}
    /\ polled' = "none"
    /\ last_call' = "started"
    /\ last_call_alive' = (alive # {})
    /\ last_call_flag' = cancel_flag
    /\ pc' = "loop"
    /\ mode' = "merge"
    /\ items' = its
    /\ has_progress' = TRUE
    /\ has_cancel' = TRUE
    /\ output_doc' = "open"
    /\ outcome' = "Running"
    /\ UNCHANGED << rows, cols, idx, pages, opened_docs, live, open_ok, open_tried,
                    progress_log, cancel_polls, stages, placed, save_calls, saved,
                    cancel_at, result >>
    /\ UNCHANGED << progress_queue, reported, received, last_got >>
    /\ UNCHANGED << cropVars, layVars, cfgVars, runVars >>

\* The worker polls cancel_check() at the top of the loop (merger.py:55-56,
\* tasks.py:27-29); when it answers true merge_to_pdf returns False and
\* the thread ends.
ExportPoll ==
    /\ pc = "loop" /\ mode = "merge"
    /\ current_task \in alive
    /\ idx < Len(items)
    /\ cancel_polls' = cancel_polls + 1
    /\ polled' = IF is_cancelled(cancel_flag) THEN "true" ELSE "false"
    /\ IF CancelRequested(has_cancel, is_cancelled(cancel_flag))
       THEN /\ cancel_at' = idx
            /\ pc' = "done"
            /\ result' = "False"
            /\ outcome' = "Cancelled"
            /\ alive' = alive \ {current_task}
       ELSE /\ pc' = "item"
            /\ UNCHANGED << cancel_at, result, outcome, alive >>
    /\ UNCHANGED << rows, cols, mode, items, has_progress, has_cancel, idx,
                    output_doc, pages, opened_docs, live, open_ok, open_tried,
                    progress_log, stages, placed, save_calls, saved >>
    /\ UNCHANGED << current_task, cancel_flag, progress_queue, started, reported,
                    received, last_got, last_call, last_call_alive, last_call_flag >>
    /\ UNCHANGED << cropVars, layVars, cfgVars, runVars >>

\* The rest of the iteration: progress report, new page, the item's three
\* stages (merger.py:58-100, tasks.py:51-53).
ExportItem(open_answer, crop_answer, show_answer) ==
    /\ pc = "item"
    /\ progress_log' = Append(progress_log, ExportProgress(idx, items))
    /\ progress_queue' = QueuePut(progress_queue, [run |-> current_task, current |-> idx + 1])
    /\ reported' = [reported EXCEPT ![current_task] = @ + 1]
    /\ pages' = IF NeedsNewPage(idx) THEN pages + 1 ELSE pages
    /\ ItemBody(idx, (IF NeedsNewPage(idx) THEN pages + 1 ELSE pages) - 1, CellIndex(idx),
                open_answer, crop_answer, show_answer)
    /\ pc' = "loop"
    /\ UNCHANGED << rows, cols, mode, items, has_progress, has_cancel, output_doc,
                    cancel_polls, save_calls, saved, cancel_at, result, outcome >>
    /\ UNCHANGED << current_task, alive, cancel_flag, started, received, last_got,
                    polled, last_call, last_call_alive, last_call_flag >>
    /\ UNCHANGED << cropVars, layVars, cfgVars, runVars >>

\* After the loop the worker saves and closes (merger.py:102-113) and the
\* thread ends.
ExportFinish(save_answer) ==
    /\ pc = "loop" /\ mode = "merge"
    /\ current_task \in alive
    /\ idx = Len(items)
    /\ save_calls' = save_calls + 1
    /\ pc' = "done"
    /\ alive' = alive \ {current_task}
    /\ IF save_answer
       THEN /\ saved' = saved + 1
            /\ output_doc' = "closed"
            /\ live' = [p \in Paths |-> IF p \in opened_docs THEN live[p] - 1 ELSE live[p]]
            /\ result' = "True"
            /\ outcome' = "Completed"
       ELSE /\ result' = "False"
            /\ outcome' = "Failed"
            /\ UNCHANGED << saved, output_doc, live >>
    /\ UNCHANGED << rows, cols, mode, items, has_progress, has_cancel, idx, pages,
                    opened_docs, open_ok, open_tried, progress_log, cancel_polls,
                    stages, placed, cancel_at >>
    /\ UNCHANGED << current_task, cancel_flag, progress_queue, started, reported,
                    received, last_got, polled, last_call, last_call_alive, last_call_flag >>
    /\ UNCHANGED << cropVars, layVars, cfgVars, runVars >>

\* The controlling context calls cancel() (tasks.py:23-25); the first call
\* made while the export runs is remembered with the worker's position.
ExportCancel ==
    /\ cancel_flag' = TRUE
    /\ cancel_called' = IF cancel_called = <<>> /\ is_running(current_task, alive)
                        THEN << [index |-> idx, phase |-> pc] >>
                        ELSE cancel_called
    /\ UNCHANGED << current_task, alive, progress_queue, started, reported, received,
                    last_got, polled, last_call, last_call_alive, last_call_flag >>
    /\ UNCHANGED << mergeVars, cropVars, layVars, cfgVars >>

RunInit ==
    /\ rows = 1
    /\ cols = 1
    /\ MergeIdle
    /\ TaskIdle
    /\ CropParked
    /\ LayParked
    /\ CfgIdle
    /\ RunIdle

RunNext ==
    \/ \E its \in ExportLists : ExportStart(its)
    \/ ExportPoll
    \/ \E o \in BOOLEAN, r \in BOOLEAN, s \in BOOLEAN : ExportItem(o, r, s)
    \/ \E ok \in BOOLEAN : ExportFinish(ok)
    \/ ExportCancel
    \/ GetProgress

RunSpec == RunInit /\ [][RunNext]_vars

\* ------------------------------------------------- config construction
\* a < b and a <= b on numbers; every comparison with nan is false.
NumLt(a, b) == a # <<>> /\ b # <<>> /\ a[1] < b[1]
NumLe(a, b) == a # <<>> /\ b # <<>> /\ a[1] <= b[1]

\* Arguments handed to CropConfig(...): floats for top_half_ratio,
\* auto_margin and pixel_zoom, an int for pixel_threshold.
CropArgs ==
    [top_half_ratio : { <<>>, <<-10>>, <<0>>, <<1>>, <<55>>, <<100>>, <<101>> },
     auto_margin : { <<>>, <<-1>>, <<0>>, <<10>> },
     pixel_threshold : { <<-1>>, <<0>>, <<245>>, <<255>>, <<256>> },
     pixel_zoom : { <<>>, <<-15>>, <<0>>, <<15>> }]

\* Arguments handed to LayoutConfig(...): ints for rows and cols, floats
\* for margin and gap.
LayoutArgs ==
    [rows : { <<-1>>, <<0>>, <<1>>, <<2>> },
     cols : { <<-1>>, <<0>>, <<1>>, <<2>> },
     margin : { <<>>, <<-1>>, <<0>>, <<20>> },
     gap : { <<>>, <<-1>>, <<0>>, <<10>> }]

\* CropConfig.__post_init__ raises ValueError (models.py:41-50).
CropConfigRaises(c) ==
    \/ ~(NumLt(<<0>>, c.top_half_ratio) /\ NumLe(c.top_half_ratio, <<100>>))
    \/ NumLt(c.auto_margin, <<0>>)
    \/ ~(NumLe(<<0>>, c.pixel_threshold) /\ NumLe(c.pixel_threshold, <<255>>))
    \/ NumLe(c.pixel_zoom, <<0>>)

\* LayoutConfig.__post_init__ raises ValueError (models.py:62-67).
LayoutConfigRaises(c) ==
    \/ NumLe(c.rows, <<0>>) \/ NumLe(c.cols, <<0>>)
    \/ NumLt(c.margin, <<0>>) \/ NumLt(c.gap, <<0>>)

\* CropConfig(top_half_ratio, auto_margin, pixel_threshold, pixel_zoom).
ConstructCropConfig ==
    /\ cfg_call.cls = "none"
    /\ \E c \in CropArgs :
          /\ cfg_call' = [cfg_call EXCEPT !.cls = "CropConfig", !.crop = c]
          /\ cfg_ret' = IF CropConfigRaises(c)
                        THEN [raised |-> TRUE, object |-> "none"]
                        ELSE [raised |-> FALSE, object |-> "CropConfig"]
    /\ UNCHANGED << mergeVars, taskVars, cropVars, layVars, runVars >>

\* LayoutConfig(rows, cols, margin=..., gap=...).
ConstructLayoutConfig ==
    /\ cfg_call.cls = "none"
    /\ \E c \in LayoutArgs :
          /\ cfg_call' = [cfg_call EXCEPT !.cls = "LayoutConfig", !.layout = c]
          /\ cfg_ret' = IF LayoutConfigRaises(c)
                        THEN [raised |-> TRUE, object |-> "none"]
                        ELSE [raised |-> FALSE, object |-> "LayoutConfig"]
    /\ UNCHANGED << mergeVars, taskVars, cropVars, layVars, runVars >>

CfgInit ==
    /\ rows = 1
    /\ cols = 1
    /\ MergeIdle
    /\ TaskIdle
    /\ CropParked
    /\ LayParked
    /\ CfgIdle
    /\ RunIdle

CfgNext ==
    \/ ConstructCropConfig
    \/ ConstructLayoutConfig

CfgSpec == CfgInit /\ [][CfgNext]_vars

\* ---------------------------------------------------------------- claims
Ceil(a, b) == (a + b - 1) \div b

PlacedIndexes == { placed[k].index : k \in 1..Len(placed) }

AllStagesOk(st) == st.open \in {"ok", "reused"} /\ st.crop = "ok" /\ st.show = "ok"

\* C1: in merge_to_pdf an item is composed onto the output if and only if
\* its three stages (open-or-reuse, compute_crop_rect, show_pdf_page) all
\* succeed; a stage failure never stops the scan, so a run over a non-empty
\* list that is not cancelled scans every item, and returns True when the
\* save succeeds.
C1_ComposedIffAllStagesSucceed ==
    mode = "merge" =>
        /\ \A i \in 1..Len(stages) : ((i - 1) \in PlacedIndexes) <=> AllStagesOk(stages[i])
        /\ PlacedIndexes \subseteq 0 .. Len(stages) - 1
        /\ (pc = "done" /\ items # <<>> /\ cancel_at = -1) => Len(stages) = Len(items)
        /\ (pc = "done" /\ items # <<>> /\ cancel_at = -1 /\ saved = save_calls)
              => (result = "True" /\ outcome = "Completed")

\* The partial-failure scenario: three items, the second one's open fails,
\* the run completes with the first and the third placed.
C1_Witness ==
    /\ mode = "merge" /\ pc = "done" /\ result = "True"
    /\ Len(items) = 3 /\ Len(stages) = 3
    /\ stages[2].open = "failed"
    /\ PlacedIndexes = {0, 2}

\* C2: cancel_check is polled first in every iteration; once it answers
\* true at item k the run ends Cancelled (returns False) with nothing done
\* for any item of index >= k: exactly k items scanned, k progress reports
\* (if a sink is supplied), the pages of the first k items only, nothing
\* placed at an index >= k, and no save.
C2_CancelStopsBeforeItem ==
    cancel_at # -1 =>
        /\ pc = "done" /\ result = "False" /\ outcome = "Cancelled"
        /\ idx = cancel_at /\ Len(stages) = cancel_at
        /\ cancel_polls = cancel_at + 1
        /\ Len(progress_log) = (IF has_progress THEN cancel_at ELSE 0)
        /\ pages = Ceil(cancel_at, items_per_page)
        /\ \A k \in 1..Len(placed) : placed[k].index < cancel_at
        /\ \A p \in Paths : open_tried[p] <= cancel_at
        /\ save_calls = 0

\* The cancellation scenario: the predicate is true before the first item.
C2_Witness ==
    /\ cancel_at = 0 /\ Len(items) = MaxItems /\ has_progress
    /\ pc = "done" /\ outcome = "Cancelled"
    /\ stages = <<>> /\ progress_log = <<>> /\ pages = 0 /\ placed = <<>>

\* C3 (as stated): when a merge_to_pdf run has ended, however it ended, no
\* source handle opened during the run is still open.
C3_NoHandleOpenAfterRun ==
    (mode = "merge" /\ pc = "done") => \A p \in Paths : live[p] = 0

\* The parts of C4 that concern the save call: it is made at most once,
\* only after the whole scan, never in a cancelled run, exactly once in a run
\* that is not cancelled, and a failed save ends the run Failed.
C4_SaveOnceAfterScan ==
    mode = "merge" =>
        /\ save_calls <= 1
        /\ save_calls > 0 => (idx = Len(items) /\ Len(stages) = Len(items))
        /\ (pc = "done" /\ items # <<>> /\ outcome # "Cancelled") => save_calls = 1
        /\ (pc = "done" /\ save_calls > saved) => (result = "False" /\ outcome = "Failed")
        /\ outcome = "Cancelled" => (save_calls = 0 /\ saved = 0)

\* The part of C4 that concerns the output handle: once the save call of a
\* run has been made, the output document's handle is closed.
C4_OutputClosedAfterSave ==
    (mode = "merge" /\ pc = "done" /\ save_calls > 0) => output_doc = "closed"

\* C4 (as stated): a run that is not cancelled persists the output exactly
\* once, after every item has been scanned and however many were skipped,
\* and then closes its handle; a failed persist ends the run Failed; a
\* cancelled run never persists.
C4_PersistedOnceThenClosed ==
    C4_SaveOnceAfterScan /\ C4_OutputClosedAfterSave

\* C5: merge_to_pdf with an empty item sequence returns False at once and
\* performs no engine operation: no output document, no page, no open, no
\* progress report, no cancellation poll, no save.
C5_EmptyInputFailsAtOnce ==
    (mode = "merge" /\ items = <<>>) =>
        /\ pc = "done" /\ result = "False" /\ outcome = "Failed"
        /\ output_doc = "none" /\ pages = 0
        /\ \A p \in Paths : open_tried[p] = 0 /\ live[p] = 0
        /\ progress_log = <<>> /\ cancel_polls = 0
        /\ stages = <<>> /\ placed = <<>> /\ save_calls = 0

\* The empty-input scenario, with both callbacks supplied.
C5_Witness ==
    /\ mode = "merge" /\ items = <<>> /\ pc = "done"
    /\ has_progress /\ has_cancel
    /\ result = "False"

\* C6: within one run (export or preview) open_document succeeds at most
\* once per path, and every later item with a path that was opened is
\* processed on the cached handle.
C6_PathOpenedAtMostOnce ==
    /\ \A p \in Paths : open_ok[p] <= 1 /\ live[p] <= 1
    /\ \A i \in 1..Len(stages) : \A j \in 1..(i - 1) :
          (items[j].path = items[i].path /\ stages[j].open \in {"ok", "reused"})
              => stages[i].open = "reused"

\* A preview over three items of one path: the first open fails, the second
\* succeeds, the third item reuses the handle.
C6_Witness ==
    /\ mode = "preview" /\ Len(stages) = 3
    /\ items[1].path = items[2].path /\ items[2].path = items[3].path
    /\ stages[1].open = "failed" /\ stages[2].open = "ok" /\ stages[3].open = "reused"
    /\ open_ok[items[1].path] = 1 /\ open_tried[items[1].path] = 2

\* C7: merge_to_pdf adds an output page exactly at the indices that are
\* multiples of items_per_page: after i items the output has
\* ceil(i / items_per_page) pages, skipped items included.
C7_PagePerItemsPerPage ==
    mode = "merge" =>
        /\ pages = Ceil(idx, items_per_page)
        /\ (pc = "done" /\ idx = Len(items)) => pages = Ceil(Len(items), items_per_page)

\* A full scan of 3 items at 2 per page: 2 pages, although the only item of
\* the second page was skipped.
C7_Witness ==
    /\ mode = "merge" /\ pc = "done" /\ outcome = "Completed"
    /\ Len(items) = 3 /\ items_per_page = 2 /\ pages = 2
    /\ ~AllStagesOk(stages[3])

\* C8: the item of input index i is composed on output page
\* i div items_per_page in cell i mod items_per_page (row = cell div cols,
\* col = cell mod cols); items are composed in input order; the page and
\* cell of a skipped item stay empty.
C8_PlacedByIndex ==
    mode = "merge" =>
        /\ \A k \in 1..Len(placed) :
              /\ placed[k].page = placed[k].index \div items_per_page
              /\ placed[k].cell = placed[k].index % items_per_page
              /\ placed[k].page < pages
              /\ placed[k].row = placed[k].cell \div cols /\ placed[k].row < rows
              /\ placed[k].col = placed[k].cell % cols
              /\ placed[k].path = items[placed[k].index + 1].path
        /\ \A k \in 1..Len(placed) : \A l \in 1..(k - 1) : placed[l].index < placed[k].index
        /\ \A i \in 1..Len(stages) :
              ~AllStagesOk(stages[i]) =>
                  \A k \in 1..Len(placed) :
                      ~(placed[k].page = (i - 1) \div items_per_page
                          /\ placed[k].cell = (i - 1) % items_per_page)

\* Two items per page, the second item skipped, the third placed in the
\* first cell of the second page.
C8_Witness ==
    /\ mode = "merge" /\ items_per_page = 2 /\ Len(stages) = 3
    /\ ~AllStagesOk(stages[2])
    /\ PlacedIndexes = {0, 2}
    /\ placed[2].page = 1 /\ placed[2].cell = 0

\* C9: with a progress sink, merge_to_pdf reports, for every item it scans
\* and before the next one, current = index + 1, total = number of items
\* and the item's file name; the reports of a run are 1, 2, ... in order.
C9_ProgressBeforeEachItem ==
    (mode = "merge" /\ has_progress) =>
        /\ Len(progress_log) = Len(stages)
        /\ \A k \in 1..Len(progress_log) :
              /\ progress_log[k].current = k
              /\ progress_log[k].total = Len(items)
              /\ progress_log[k].current_file = items[k].path[Len(items[k].path)]
              /\ 1 <= progress_log[k].current
              /\ progress_log[k].current <= progress_log[k].total
        /\ (pc = "done" /\ cancel_at = -1) =>
              [k \in 1..Len(progress_log) |-> progress_log[k].current]
                  = [k \in 1..Len(items) |-> k]

\* A full scan of three items whose second item was skipped and reported.
C9_Witness ==
    /\ mode = "merge" /\ has_progress /\ pc = "done" /\ cancel_at = -1
    /\ Len(items) = 3 /\ Len(progress_log) = 3
    /\ ~AllStagesOk(stages[2])
    /\ progress_log[2].current = 2

\* C10 (as stated): generate_preview_page composes onto one page and scans
\* at most items_per_page items whatever max_items is, so no two preview
\* items are placed in the same grid cell.
C10_PreviewWithinOnePage ==
    mode = "preview" =>
        /\ pages <= 1
        /\ Len(stages) <= items_per_page
        /\ \A k \in 1..Len(placed) : \A l \in 1..(k - 1) :
              ~(placed[k].row = placed[l].row /\ placed[k].col = placed[l].col)

\* C11: at most one task started by the TaskRunner is alive at any time;
\* run_task raises RuntimeError exactly when it is called while the current
\* task is alive, and then starts nothing; called after the task has ended
\* it starts a new one.
C11_OneTaskAtATime ==
    /\ Cardinality(alive) <= 1
    /\ alive \subseteq {current_task}
    /\ started = current_task
    /\ last_call = "RuntimeError" => last_call_alive
    /\ last_call = "started" => ~last_call_alive

\* A second task was started after the first one ended, and a run_task call
\* made while the second is alive was rejected.
C11_Witness ==
    /\ started = 2 /\ alive = {2} /\ last_call = "RuntimeError"

\* C12: while a task is alive the cancellation flag, once set, stays set:
\* no step resets it before the task ends, so every is_cancelled() poll
\* after cancel() answers true.
C12_CancelFlagMonotonic ==
    /\ [][(alive # {} /\ cancel_flag /\ alive' # {}) => cancel_flag']_vars
    /\ []((alive # {} /\ polled = "true") => is_cancelled(cancel_flag))

\* A cancelled task that is still alive has polled the flag, and a run_task
\* call was rejected meanwhile.
C12_Witness ==
    /\ alive # {} /\ cancel_flag /\ polled = "true" /\ last_call = "RuntimeError"

LastReported(t) == [run |-> t, current |-> reported[t]]

WasReceived(v) == \E k \in 1..Len(received) : received[k] = v

\* C13: once a task has ended, the last progress value it reported is
\* eventually returned by get_progress to a consumer that keeps calling it.
C13_FinalProgressDelivered ==
    \A t \in 1..MaxRuns : \A n \in 1..MaxReports :
        (t \notin alive /\ t <= started /\ reported[t] = n)
            ~> WasReceived([run |-> t, current |-> n])

\* A task ended after MaxReports reports none of which had been read; the
\* consumer then received them all, the last one last.
C13_Witness ==
    /\ started = 1 /\ alive = {} /\ reported[1] = MaxReports
    /\ Len(received) = MaxReports
    /\ received[Len(received)] = LastReported(1)
    /\ progress_queue = <<>>

\* The object-based tier's result for the call in crop_call.
Tier1 == detect_object_bounds(crop_call.sources)

\* r has no point outside outer.
Inside(r, outer) ==
    /\ outer.x0 <= r.x0 /\ r.x0 <= r.x1 /\ r.x1 <= outer.x1
    /\ outer.y0 <= r.y0 /\ r.y0 <= r.y1 /\ r.y1 <= outer.y1

\* C14: compute_crop_rect takes the manual rectangle exactly when crop_mode
\* is "manual" and a manual region is present, the top rectangle
\* (0, 0, W, H * top_half_ratio) exactly when crop_mode is "top", and
\* automatic detection in every other case (an unrecognized mode, or
\* "manual" without a region); no crop mode makes it raise.
C14_ModeDispatch ==
    crop_call.fn = "compute_crop_rect" =>
        LET item == crop_call.item
            manual == item.crop_mode = "manual" /\ item.manual_norm # <<>>
            top == item.crop_mode = "top"
        IN  /\ crop_ret.branch \in { "manual", "top", "auto" }
            /\ crop_ret.branch = "manual" <=> manual
            /\ crop_ret.branch = "top" <=> top
            /\ crop_ret.branch = "auto" <=> (~manual /\ ~top)
            /\ manual => crop_ret.rect = manual_crop(crop_page, item.manual_norm)
            /\ top => /\ crop_ret.rect.x0 = 0
                      /\ crop_ret.rect.y0 = 0
                      /\ crop_ret.rect.x1 = crop_page.width
                      /\ crop_ret.rect.y1 * 100 = crop_page.height * crop_cfg.top_half_pct
            /\ (~manual /\ ~top) =>
                   /\ crop_ret.rect = auto_crop(crop_page, crop_cfg, crop_call.sources,
                                                crop_call.pixel).rect
                   /\ crop_ret.fallback = auto_crop(crop_page, crop_cfg, crop_call.sources,
                                                    crop_call.pixel).fallback

C14_Witness ==
    /\ crop_call.fn = "compute_crop_rect"
    /\ crop_call.item.crop_mode = "other"
    /\ crop_call.item.manual_norm # <<>>
    /\ crop_ret.branch = "auto"
    /\ ~crop_ret.fallback

\* C15: for a manual region with 0 <= x0 < x1 <= 1 and 0 <= y0 < y1 <= 1
\* the rectangle resolved in manual mode is (x0*W, y0*H, x1*W, y1*H)
\* intersected with the page rectangle, and lies within the page rectangle.
C15_ManualWithinPage ==
    crop_ret.branch = "manual" =>
        LET n == crop_call.item.manual_norm
            r == crop_ret.rect
        IN  /\ ValidNorm(n)
            /\ 2 * r.x0 = n[1] * crop_page.width
            /\ 2 * r.y0 = n[2] * crop_page.height
            /\ 2 * r.x1 = n[3] * crop_page.width
            /\ 2 * r.y1 = n[4] * crop_page.height
            /\ Inside(r, PageRect(crop_page))
            /\ ~IsEmpty(r)

C15_Witness ==
    /\ crop_ret.branch = "manual"
    /\ crop_call.item.manual_norm = <<1, 0, 2, 1>>
    /\ crop_page = [width |-> 40, height |-> 60]
    /\ crop_ret.rect = Rect(20, 0, 40, 30)

\* C16 as stated: automatic detection returns the page's own rectangle
\* (full-page fallback) if and only if both the object-based tier and the
\* pixel-based tier produced an empty result.
C16_FallbackIffBothTiersEmpty ==
    crop_ret.branch = "auto" =>
        /\ crop_ret.fallback <=> (IsEmpty(Tier1) /\ IsEmpty(crop_call.pixel))
        /\ crop_ret.fallback => crop_ret.rect = PageRect(crop_page)

\* C16, amended: automatic detection returns the page's own rectangle
\* unmodified if and only if the object-based tier produced an empty result
\* or one of area below 100 and the pixel-based tier produced an empty
\* result; a nonempty tier-1 result of area below 100 is discarded and does
\* not prevent the fallback.
C16_FallbackIffNothingUsable ==
    crop_ret.branch = "auto" =>
        /\ crop_ret.fallback <=>
               /\ IsEmpty(Tier1) \/ RectArea(Tier1) < 100
               /\ IsEmpty(crop_call.pixel)
        /\ crop_ret.fallback => crop_ret.rect = PageRect(crop_page)

C16_Witness ==
    /\ crop_ret.branch = "auto"
    /\ crop_ret.fallback
    /\ ~IsEmpty(Tier1)
    /\ crop_ret.rect = PageRect(crop_page)

\* C17: in automatic detection the selected rectangle is the tier-1 union
\* when it is nonempty with area >= 100 and the tier-2 pixel box otherwise;
\* when the selected rectangle is nonempty the result is that rectangle
\* expanded by auto_margin on all four sides and intersected with the page
\* rectangle, so the result never exceeds the page.
C17_ExpandedThenClamped ==
    crop_ret.branch = "auto" =>
        LET sel == IF ~IsEmpty(Tier1) /\ RectArea(Tier1) >= 100 THEN Tier1 ELSE crop_call.pixel
            m == crop_cfg.auto_margin
            r == crop_ret.rect
            overlaps == /\ sel.x0 - m < crop_page.width /\ sel.x1 + m > 0
                        /\ sel.y0 - m < crop_page.height /\ sel.y1 + m > 0
        IN  ~IsEmpty(sel) =>
                /\ ~crop_ret.fallback
                /\ overlaps => /\ r.x0 = Max(sel.x0 - m, 0)
                               /\ r.y0 = Max(sel.y0 - m, 0)
                               /\ r.x1 = Min(sel.x1 + m, crop_page.width)
                               /\ r.y1 = Min(sel.y1 + m, crop_page.height)
                               /\ Inside(r, PageRect(crop_page))
                /\ ~overlaps => IsEmpty(r)

C17_Witness ==
    /\ crop_ret.branch = "auto"
    /\ ~crop_ret.fallback
    /\ Tier1 = Rect(0, 0, 30, 30)
    /\ crop_cfg.auto_margin = 10
    /\ crop_page = [width |-> 40, height |-> 60]
    /\ crop_ret.rect = Rect(0, 0, 40, 40)

\* The rectangles of a sequence, as a set.
RectsOf(rects) == { rects[k] : k \in 1..Len(rects) }

SetMin(S) == CHOOSE x \in S : \A y \in S : x <= y
SetMax(S) == CHOOSE x \in S : \A y \in S : x >= y

\* The smallest rectangle enclosing the rectangles of the nonempty set S.
BoundingBox(S) ==
    Rect(SetMin({ r.x0 : r \in S }), SetMin({ r.y0 : r \in S }),
         SetMax({ r.x1 : r \in S }), SetMax({ r.y1 : r \in S }))

\* What the three sources hold, leaving out every source whose retrieval
\* fails; for images, the boxes that are not empty.
UnfailedRects(src) ==
    (IF src.text.fail THEN {} ELSE RectsOf(src.text.rects))
        \cup (IF src.drawings.fail THEN {} ELSE RectsOf(src.drawings.rects))
        \cup (IF src.images.fail_at <= Len(src.images.bboxes) THEN {}
              ELSE { r \in RectsOf(src.images.bboxes) : ~IsEmpty(r) })

NoFailure(src) ==
    [text |-> [fail |-> FALSE, rects |-> src.text.rects],
     drawings |-> [fail |-> FALSE, rects |-> src.drawings.rects],
     images |-> [fail_at |-> Len(src.images.bboxes) + 1, bboxes |-> src.images.bboxes]]

C19_CellPositionWraps ==
    lay_call.fn = "get_cell_position" =>
        LET i == lay_call.index
            next == get_cell_position(i + rows * cols)
        IN  /\ lay_ret.row = (i \div cols) % rows
            /\ lay_ret.col = i % cols
            /\ 0 <= lay_ret.row /\ lay_ret.row < rows
            /\ 0 <= lay_ret.col /\ lay_ret.col < cols
            /\ next.row = lay_ret.row
            /\ next.col = lay_ret.col

C19_Witness ==
    /\ lay_call.fn = "get_cell_position"
    /\ rows = 2 /\ cols = 2
    /\ lay_call.index = 5
    /\ lay_ret.row = 0 /\ lay_ret.col = 1

\* The cell of the call in lay_call, as the calculator computes it, the
\* size of the rectangle it returned, and the call's preconditions.
DestCell ==
    LET cell == get_cell_size(lay_cfg)
        origin == cell_origin(lay_cfg, [row |-> lay_ret.row, col |-> lay_ret.col])
    IN  [x0 |-> origin.x, y0 |-> origin.y,
         x1 |-> RAdd(origin.x, cell.w), y1 |-> RAdd(origin.y, cell.h),
         w |-> cell.w, h |-> cell.h]

dest_w == RSub(lay_ret.x1, lay_ret.x0)
dest_h == RSub(lay_ret.y1, lay_ret.y0)

PositiveDestCall ==
    /\ lay_call.fn = "calculate_dest_rect"
    /\ lay_call.src_w > 0 /\ lay_call.src_h > 0
    /\ RLt(RInt(0), DestCell.w) /\ RLt(RInt(0), DestCell.h)

\* The distance of a from b.
RAbs(a) == << Abs(a[1]), a[2] >>
RDist(a, b) == RAbs(RSub(a, b))

\* Four units in the last place of the larger page dimension.
RoundingTolerance ==
    LET page == page_size(lay_cfg)
    IN  RDiv(RMul(RInt(4), IF RLe(page.w, page.h) THEN page.h ELSE page.w),
             RInt(Pow2(FloatBits)))

\* C20 as stated: for a source of positive width and height and a layout
\* of positive cell size, calculate_dest_rect returns a rectangle with
\* exactly the source's aspect ratio (dest_w * src_h = dest_h * src_w) that
\* lies inside the cell of the index, is centred in it on both axes and
\* spans the full cell in at least one dimension.
C20_DestRectExact ==
    PositiveDestCall =>
        /\ RMul(dest_w, RInt(lay_call.src_h)) = RMul(dest_h, RInt(lay_call.src_w))
        /\ RLe(DestCell.x0, lay_ret.x0) /\ RLe(lay_ret.x1, DestCell.x1)
        /\ RLe(DestCell.y0, lay_ret.y0) /\ RLe(lay_ret.y1, DestCell.y1)
        /\ RSub(lay_ret.x0, DestCell.x0) = RSub(DestCell.x1, lay_ret.x1)
        /\ RSub(lay_ret.y0, DestCell.y0) = RSub(DestCell.y1, lay_ret.y1)
        /\ dest_w = DestCell.w \/ dest_h = DestCell.h

\* C20, amended: the same four properties hold up to floating-point
\* rounding, not exactly: with tol four units in the last place of the
\* larger page dimension, |dest_w * src_h - dest_h * src_w| <= tol *
\* (src_w + src_h), the rectangle leaves the cell by at most tol on any
\* side, its two gaps to the cell differ by at most tol on each axis, and
\* its width or its height is within tol of the cell's (sources smaller
\* than the cell are scaled up).
C20_DestRectWithinRounding ==
    PositiveDestCall =>
        LET tol == RoundingTolerance
        IN  /\ RLe(RDist(RMul(dest_w, RInt(lay_call.src_h)), RMul(dest_h, RInt(lay_call.src_w))),
                   RMul(tol, RInt(lay_call.src_w + lay_call.src_h)))
            /\ RLe(RSub(DestCell.x0, lay_ret.x0), tol) /\ RLe(RSub(lay_ret.x1, DestCell.x1), tol)
            /\ RLe(RSub(DestCell.y0, lay_ret.y0), tol) /\ RLe(RSub(lay_ret.y1, DestCell.y1), tol)
            /\ RLe(RDist(RSub(lay_ret.x0, DestCell.x0), RSub(DestCell.x1, lay_ret.x1)), tol)
            /\ RLe(RDist(RSub(lay_ret.y0, DestCell.y0), RSub(DestCell.y1, lay_ret.y1)), tol)
            /\ RLe(RDist(dest_w, DestCell.w), tol) \/ RLe(RDist(dest_h, DestCell.h), tol)

C20_Witness ==
    /\ PositiveDestCall
    /\ lay_call.src_w = 3 /\ lay_call.src_h = 7
    /\ RLt(RInt(7), dest_h)
    /\ RMul(dest_w, RInt(lay_call.src_h)) # RMul(dest_h, RInt(lay_call.src_w))

\* C21: constructing a CropConfig succeeds if and only if
\* 0 < top_half_ratio <= 1, auto_margin >= 0, 0 <= pixel_threshold <= 255
\* and pixel_zoom > 0; constructing a LayoutConfig succeeds if and only if
\* rows > 0, cols > 0, margin >= 0 and gap >= 0; otherwise construction
\* raises and no config object comes into existence.
C21_ConstructedIffValid ==
    LET c == cfg_call.crop
        l == cfg_call.layout
        crop_valid == /\ NumLt(<<0>>, c.top_half_ratio) /\ NumLe(c.top_half_ratio, <<100>>)
                      /\ NumLe(<<0>>, c.auto_margin)
                      /\ NumLe(<<0>>, c.pixel_threshold) /\ NumLe(c.pixel_threshold, <<255>>)
                      /\ NumLt(<<0>>, c.pixel_zoom)
        layout_valid == /\ NumLt(<<0>>, l.rows) /\ NumLt(<<0>>, l.cols)
                        /\ NumLe(<<0>>, l.margin) /\ NumLe(<<0>>, l.gap)
    IN  /\ cfg_call.cls = "CropConfig" =>
               /\ ~cfg_ret.raised <=> crop_valid
               /\ cfg_ret.object = IF crop_valid THEN "CropConfig" ELSE "none"
        /\ cfg_call.cls = "LayoutConfig" =>
               /\ ~cfg_ret.raised <=> layout_valid
               /\ cfg_ret.object = IF layout_valid THEN "LayoutConfig" ELSE "none"

\* C22: get_progress returns the latest progress update: when at least
\* one unread report exists it returns the most recently reported value,
\* and it returns None when no report is pending.
C22_GetProgressReturnsLatest ==
    [][GetProgress =>
          IF progress_queue = <<>>
          THEN last_got' = <<>>
          ELSE last_got' = << progress_queue[Len(progress_queue)] >>]_vars

\* C23 as stated: when merge_to_pdf runs on the TaskRunner worker with
\* is_cancelled as its cancellation predicate and cancel() is called while
\* item k is being processed, item k may complete, but no item with index
\* greater than k is opened, cropped or composed, and the run ends without
\* persisting the output.
C23_CancelWithinOneItem ==
    (cancel_called # <<>> /\ cancel_called[1].phase = "item") =>
        LET k == cancel_called[1].index
        IN  /\ Len(stages) <= k + 1
            /\ save_calls = 0
            /\ pc = "done" => (outcome = "Cancelled" /\ saved = 0)

\* C23, amended: no item with index greater than k is opened, cropped or
\* composed; when an item follows k the run ends Cancelled without
\* persisting the output, but when k is the last item no poll follows it
\* and the run goes on to save the output.
C23_CancelWithinOneItemUnlessLast ==
    (cancel_called # <<>> /\ cancel_called[1].phase = "item") =>
        LET k == cancel_called[1].index
        IN  /\ Len(stages) <= k + 1
            /\ k + 1 < Len(items) =>
                   /\ save_calls = 0
                   /\ pc = "done" => (outcome = "Cancelled" /\ saved = 0 /\ cancel_at = k + 1)
            /\ (k + 1 = Len(items) /\ pc = "done") =>
                   (save_calls = 1 /\ outcome \in { "Completed", "Failed" })

C23_Witness ==
    /\ cancel_called # <<>>
    /\ cancel_called[1] = [index |-> 0, phase |-> "item"]
    /\ Len(items) = 3
    /\ Len(stages) = 1
    /\ pc = "done"
    /\ outcome = "Cancelled"
    /\ saved = 0
\* C24: a run_task call rejected because a task is running changes nothing:
\* the running task, the set of live threads, the cancellation flag (set or
\* clear) and the queued progress values are the same after the call as
\* before it.
C24_RejectedRunTaskChangesNothing ==
    [][RunTaskRejected =>
           /\ current_task' = current_task
           /\ alive' = alive
           /\ started' = started
           /\ cancel_flag' = cancel_flag
           /\ progress_queue' = progress_queue]_vars

\* A run_task call was rejected while the running task had its flag set and
\* had progress queued; the task, the flag and the queue are still there.
C24_Witness ==
    /\ last_call = "RuntimeError" /\ last_call_flag /\ cancel_flag
    /\ alive = {current_task} /\ progress_queue # <<>>

\* C26: every run started by run_task begins with the cancellation flag
\* clear, whatever the flag was before the call, and the first poll of a run
\* that nobody cancelled since its start answers false.
C26_RunStartsWithFlagClear ==
    [][/\ (started' = started + 1) => (~cancel_flag' /\ alive' = {current_task'})
       /\ (WorkerPoll(current_task) /\ ~cancel_flag) => polled' = "false"]_vars

\* The second run was started while the flag was still set, and its worker
\* has polled the flag and found it clear.
C26_Witness ==
    /\ started = 2 /\ last_call = "started" /\ last_call_flag
    /\ alive = {2} /\ ~cancel_flag /\ polled = "false"

\* C27: every progress value that get_progress returns after run_task has
\* started a run was reported by that run, the latest one started, and never
\* by an earlier run.
C27_ProgressOnlyFromCurrentRun ==
    [][(GetProgress /\ started >= 1 /\ last_got' # <<>>) =>
           last_got'[1].run = current_task]_vars

OpenedBefore(i) ==
    \E j \in 1..(i - 1) : items[j].path = items[i].path /\ stages[j].open = "ok"

WasPlaced(i) == \E k \in 1..Len(placed) : placed[k].index = i - 1

CellRect(i) ==
    LET pos == get_cell_position(i)
        cell == get_cell_size(lay_cfg)
        origin == cell_origin(lay_cfg, pos)
    IN  [row |-> pos.row, col |-> pos.col, x0 |-> origin.x, y0 |-> origin.y,
         x1 |-> RAdd(origin.x, cell.w), y1 |-> RAdd(origin.y, cell.h)]

GridIndices == 0 .. (rows * cols - 1)

PositiveCells ==
    /\ lay_cfg.gap >= 0
    /\ RLt(RInt(0), get_cell_size(lay_cfg).w)
    /\ RLt(RInt(0), get_cell_size(lay_cfg).h)

RMin(a, b) == IF RLe(a, b) THEN a ELSE b
RMax(a, b) == IF RLe(a, b) THEN b ELSE a

\* The length by which the intervals [lo1, hi1] and [lo2, hi2] overlap
\* (<= 0 when their interiors are disjoint).
SpanOverlap(lo1, hi1, lo2, hi2) == RSub(RMin(hi1, hi2), RMax(lo1, lo2))

DistinctPositions ==
    \A i \in GridIndices : \A j \in GridIndices :
        i # j => get_cell_position(i) # get_cell_position(j)

\* The cells of distinct indices overlap by at most tol on one axis at
\* least, and no cell sticks out of the page minus its margin by more than
\* tol.  The overlap of two cells is the smaller of the overlaps of their
\* column spans and of their row spans, which are tabulated per pair of
\* columns (xo) and per pair of rows (yo); a cell has the column span of
\* the cell above it in row 0 and the row span of the cell left of it in
\* column 0, which the first conjunct checks.
CellsApart(tol) ==
    \A cells \in { [i \in GridIndices |-> CellRect(i)] } :
    \A xo \in { [c1 \in 0..(cols - 1) |-> [c2 \in 0..(cols - 1) |->
                    SpanOverlap(cells[c1].x0, cells[c1].x1, cells[c2].x0, cells[c2].x1)]] } :
    \A yo \in { [r1 \in 0..(rows - 1) |-> [r2 \in 0..(rows - 1) |->
                    SpanOverlap(cells[r1 * cols].y0, cells[r1 * cols].y1,
                                cells[r2 * cols].y0, cells[r2 * cols].y1)]] } :
    \A margin \in { RInt(lay_cfg.margin) } :
    \A right \in { RAdd(RSub(page_size(lay_cfg).w, margin), tol) } :
    \A bottom \in { RAdd(RSub(page_size(lay_cfg).h, margin), tol) } :
        /\ \A i \in GridIndices :
               /\ cells[i].x0 = cells[cells[i].col].x0
               /\ cells[i].x1 = cells[cells[i].col].x1
               /\ cells[i].y0 = cells[cells[i].row * cols].y0
               /\ cells[i].y1 = cells[cells[i].row * cols].y1
        /\ \A i \in GridIndices : \A j \in GridIndices :
               i < j => RLe(RMin(xo[cells[i].col][cells[j].col],
                                 yo[cells[i].row][cells[j].row]), tol)
        /\ \A i \in GridIndices :
               /\ RLe(margin, RAdd(cells[i].x0, tol)) /\ RLe(cells[i].x1, right)
               /\ RLe(margin, RAdd(cells[i].y0, tol)) /\ RLe(cells[i].y1, bottom)

\* C28 as stated: over the indices 0 .. rows*cols-1 get_cell_position is
\* injective and, for gap >= 0 and positive cell size, the cells of distinct
\* indices have disjoint interiors and every cell lies inside the page minus
\* its margin.
C28_CellsDisjointInsidePage ==
    /\ DistinctPositions
    /\ PositiveCells => CellsApart(RInt(0))

\* C28 with the rounding of the arithmetic allowed for: the positions of
\* distinct indices are distinct, and the cells overlap each other and stick
\* out of the page minus its margin by no more than RoundingTolerance.
C28_CellsDisjointWithinRounding ==
    /\ DistinctPositions
    /\ PositiveCells => CellsApart(RoundingTolerance)

\* get_cell_position was called for the last cell of a grid of two rows and
\* four columns with a gap between the cells.
C28_Witness ==
    /\ lay_call.fn = "get_cell_position" /\ lay_call.index = 7
    /\ rows = 2 /\ cols = 4 /\ lay_cfg.gap = 10 /\ PositiveCells
    /\ lay_ret.row = 1 /\ lay_ret.col = 3
    /\ RLt(CellRect(6).x1, CellRect(7).x0)

====
